---- MODULE Spec2Model ----
(***************************************************************************)
(* A model of zustate: a zustand store holding named value slots and named *)
(* collections of records, and the collection helpers get, getAll, add,    *)
(* set, remove and aggregate built over it by create.                      *)
(*                                                                         *)
(* A record is a function from field names to values; a field the record   *)
(* lacks is outside its DOMAIN (reading it gives JavaScript's undefined).  *)
(* A collection is a sequence of records.                                  *)
(***************************************************************************)
EXTENDS Integers, Sequences, FiniteSets, TLC

VARIABLES
    state,      \* internal.getState(): [values, collections]
    surface,    \* the keys of the `collections` object that create built
    source,     \* per surface key, the array createRemove captured
    last,       \* the call that has just returned or thrown, or NoCall
    before,     \* the remove call that came right before `last`, or NoCall
    clock,      \* Date.now()
    hooks,      \* which of props.push and props.pull the caller configured
    phase,      \* where create is: "subscribe", "pull", "pulling", "ready"
    listeners,  \* the hooks subscribed to the zustand store
    pushed,     \* the push invocations made during the current call
    pulls       \* how many times props.pull has been invoked

sync == <<hooks, phase, listeners, pushed, pulls>>
vars == <<state, surface, source, last, before, clock, sync>>

(***************************************************************************)
(* Bounds of the model.                                                    *)
(***************************************************************************)
MaxLen == 2     \* longest collection held by the store or returned by add
MaxArgs == 2    \* longest list passed to set, remove or get
MaxCount == 2   \* largest count passed to get
MaxClock == 2   \* latest time Date.now() reaches

(***************************************************************************)
(* The universe of names and values.                                       *)
(***************************************************************************)
Names == {"tasks", "filter"}
CollNames == {"tasks"}
Ids == {"a", "b"}
AbsentId == "z"
NullValue == "<null>"
UndefinedValue == "<undefined>"
SlotValues == {NullValue, "all"}
NoCall == [op |-> "none"]
NoHooks == [push |-> FALSE, pull |-> FALSE]
NoPush == [count |-> 0]

\* uuid's v4: the n-th identifier generated within one call; it is random, so
\* it is fresh: no caller-supplied id and no id of the store equals it
UUIDs == <<"uuid1", "uuid2", "uuid3", "uuid4">>
createId(n) == UUIDs[n]

\* BaseItem: id and updated are mandatory, other fields are optional
StoreItems ==
    {[id |-> "a", updated |-> 1],
     [id |-> "a", updated |-> 1, done |-> TRUE],
     [id |-> "b", updated |-> 1, done |-> FALSE]}

SeqsUpTo(S, n) == UNION {[1..m -> S] : m \in 0..n}

Collections == SeqsUpTo(StoreItems, MaxLen)

\* JavaScript's undefined for an array-valued expression
UndefinedArray == [defined |-> FALSE, array |-> <<>>]
Some(array) == [defined |-> TRUE, array |-> array]

\* const inner = () => internal.getState().collections[key]
inner(st, key) ==
    IF key \in DOMAIN st.collections
    THEN Some(st.collections[key])
    ELSE UndefinedArray

(***************************************************************************)
(* create: the state after construction.  The collections surface is built *)
(* over Object.keys(initial.values); createRemove captures its array there. *)
(***************************************************************************)
SurfaceKeys(initial) == DOMAIN initial.values

\* the zustand store and the values and collections surfaces built over it
Built(initial) ==
    /\ state = initial
    /\ surface = SurfaceKeys(initial)
    /\ source = [k \in SurfaceKeys(initial) |-> inner(initial, k)]
    /\ last = NoCall
    /\ before = NoCall
    /\ clock = 1

\* the store that create({initial}) returns: no hook is configured
Created(initial) ==
    /\ Built(initial)
    /\ hooks = NoHooks
    /\ phase = "ready"
    /\ listeners = {}
    /\ pushed = NoPush
    /\ pulls = 0

Init ==
    \E vn \in (SUBSET Names) \ {{}}, c \in Collections :
        Created([values |-> [n \in vn |-> NullValue],
                 collections |-> [n \in CollNames |-> c]])

(***************************************************************************)
(* createAdd                                                               *)
(***************************************************************************)
\* inner.id || createId(): an absent or empty id is falsy
HasId(item) == "id" \in DOMAIN item /\ item.id # ""
\* inner.updated || Date.now(): an absent or zero timestamp is falsy
HasUpdated(item) == "updated" \in DOMAIN item /\ item.updated # 0

\* the number of createId() calls made for items[1..i]
RECURSIVE Generated(_, _)
Generated(items, i) ==
    IF i = 0 THEN 0
    ELSE Generated(items, i - 1) + (IF HasId(items[i]) THEN 0 ELSE 1)

\* { ...inner, id: inner.id || createId(), updated: inner.updated || Date.now() }
Stamp(item, fresh, now) ==
    [id |-> IF HasId(item) THEN item.id ELSE fresh,
     updated |-> IF HasUpdated(item) THEN item.updated ELSE now] @@ item

Addition(items, now) ==
    [i \in 1..Len(items) |->
        Stamp(items[i], createId(Generated(items, i)), now)]

\* add skipping the items whose id the collection already holds
AddDedupResult(array, items, position, now) ==
    LET addition == SelectSeq(Addition(items, now),
                        LAMBDA r : \A j \in 1..Len(array) : array[j].id # r.id)
    IN  IF position = "start" THEN addition \o array ELSE array \o addition

\* add putting the new records in reverse input order
AddReversedResult(array, items, position, now) ==
    LET addition == Addition(items, now)
        n == Len(addition)
        reversed == [i \in 1..n |-> addition[n + 1 - i]]
    IN  IF position = "start" THEN reversed \o array ELSE array \o reversed

\* [...(position === "start" ? addition : []), ...array(),
\*  ...(position !== "start" ? addition : [])]
AddResult(array, items, position, now) ==
    LET addition == Addition(items, now)
    IN  IF position = "start" THEN addition \o array ELSE array \o addition

\* items given to add: id and updated are optional, and may be falsy
AddItems ==
    {<<>>, [updated |-> 2], [id |-> "", updated |-> 0],
     [id |-> "a", done |-> TRUE], [id |-> "b", updated |-> 2, done |-> FALSE]}

Positions == {"start", "end", "undefined"}

Add(key, items, position) ==
    LET array == inner(state, key) IN
    /\ last = NoCall
    /\ Len(array.array) + Len(items) <= MaxLen
    /\ last' = [op |-> "add", key |-> key, items |-> items,
                position |-> position, pre |-> array, now |-> clock,
                outcome |-> IF array.defined THEN "ok" ELSE "TypeError",
                value |-> IF array.defined
                          THEN AddResult(array.array, items, position, clock)
                          ELSE <<>>]
    /\ UNCHANGED <<state, surface, source, before, clock, sync>>

(***************************************************************************)
(* createSet                                                               *)
(***************************************************************************)
Includes(array, x) == \E i \in 1..Len(array) : array[i] = x

\* items.find((item) => item.id === id): the first patch carrying the id
Find(items, id) ==
    items[CHOOSE i \in 1..Len(items) :
            /\ items[i].id = id
            /\ \A j \in 1..(i - 1) : items[j].id # id]

\* a merge that lets the patch's own updated field win
MergePatchLast(current, patch, now) == patch @@ [updated |-> now] @@ current

\* { ...current, ...patch, updated: Date.now() }
Merge(current, patch, now) == [updated |-> now] @@ patch @@ current

\* array().map(...) after array[1..i]: the records mapped so far and what is
\* left of stringArray, from which every matched id is filtered out
RECURSIVE SetMap(_, _, _, _)
SetMap(array, items, now, i) ==
    IF i = 0
    THEN [result |-> <<>>,
          stringArray |-> [j \in 1..Len(items) |-> items[j].id]]
    ELSE LET prev == SetMap(array, items, now, i - 1)
             current == array[i]
         IN  IF ~Includes(prev.stringArray, current.id)
             THEN [result |-> Append(prev.result, current),
                   stringArray |-> prev.stringArray]
             ELSE [result |-> Append(prev.result,
                                Merge(current, Find(items, current.id), now)),
                   stringArray |-> SelectSeq(prev.stringArray,
                                        LAMBDA id : id # current.id)]

\* set naming the last unmatched id instead of the first
SetLastUnmatchedOutcome(array, items, strict, now) ==
    LET mapped == SetMap(array, items, now, Len(array))
    IN  IF strict /\ Len(mapped.stringArray) > 0
        THEN [outcome |-> "Error", message |-> "Item with id not found",
              id |-> mapped.stringArray[Len(mapped.stringArray)],
              value |-> <<>>]
        ELSE [outcome |-> "ok", message |-> "", id |-> "",
              value |-> mapped.result]

\* if (strict && stringArray.length) throw ...; return result
SetOutcome(array, items, strict, now) ==
    LET mapped == SetMap(array, items, now, Len(array))
    IN  IF strict /\ Len(mapped.stringArray) > 0
        THEN [outcome |-> "Error", message |-> "Item with id not found",
              id |-> mapped.stringArray[1], value |-> <<>>]
        ELSE [outcome |-> "ok", message |-> "", id |-> "",
              value |-> mapped.result]

TypeError == [outcome |-> "TypeError", message |-> "", id |-> "", value |-> <<>>]

\* patches given to set: id is required, the other fields are optional
SetItems ==
    {[id |-> i] : i \in Ids \cup {AbsentId}}
    \cup {[id |-> i, done |-> FALSE] : i \in Ids \cup {AbsentId}}

Set(key, items, strict) ==
    LET array == inner(state, key) IN
    /\ last = NoCall
    /\ last' = [op |-> "set", key |-> key, items |-> items, strict |-> strict,
                pre |-> array, now |-> clock]
               @@ (IF array.defined
                   THEN SetOutcome(array.array, items, strict, clock)
                   ELSE TypeError)
    /\ UNCHANGED <<state, surface, source, before, clock, sync>>

(***************************************************************************)
(* createRemove                                                            *)
(***************************************************************************)
\* typeof items[0] === "string" ? items : items.map((item) => item.id)
StringArray(items) ==
    IF items.kind = "ids" /\ Len(items.list) > 0
    THEN items.list
    ELSE [i \in 1..Len(items.list) |-> items.list[i].id]

\* source.filter((item) => !stringArray.includes(item.id))
RemoveResult(array, items) ==
    SelectSeq(array, LAMBDA item : ~Includes(StringArray(items), item.id))

RemoveItems ==
    {[kind |-> "ids", list |-> l] : l \in SeqsUpTo(Ids \cup {AbsentId}, MaxArgs)}
    \cup {[kind |-> "items", list |-> l] : l \in SeqsUpTo(StoreItems, MaxArgs)}

\* a remove that deletes in place, one record per listed id
RECURSIVE Splice(_, _, _)
Splice(array, ids, i) ==
    IF i = 0 THEN array
    ELSE LET rest == Splice(array, ids, i - 1)
             hit == {j \in 1..Len(rest) : rest[j].id = ids[i]}
         IN  IF hit = {} THEN rest
             ELSE LET at == CHOOSE j \in hit : \A h \in hit : j <= h
                  IN  SubSeq(rest, 1, at - 1) \o SubSeq(rest, at + 1, Len(rest))

RemoveSplicingEffect(key, items) ==
    LET spliced == Splice(source[key].array, StringArray(items),
                          Len(StringArray(items)))
    IN  /\ last' = [op |-> "remove", key |-> key, items |-> items,
                    outcome |-> IF source[key].defined THEN "ok" ELSE "TypeError",
                    value |-> spliced]
        /\ source' = [source EXCEPT ![key].array = spliced]

\* what one call of remove does: it filters the array captured by
\* createRemove, and writes nothing
RemoveEffect(key, items) ==
    /\ last' = [op |-> "remove", key |-> key, items |-> items,
                outcome |-> IF source[key].defined THEN "ok" ELSE "TypeError",
                value |-> IF source[key].defined
                          THEN RemoveResult(source[key].array, items)
                          ELSE <<>>]
    /\ source' = source

Remove(key, items) ==
    /\ last = NoCall
    /\ RemoveEffect(key, items)
    /\ before' = NoCall
    /\ UNCHANGED <<state, surface, clock, sync>>

\* the caller makes the same remove call a second time in a row
RemoveAgain ==
    /\ last # NoCall
    /\ last.op = "remove"
    /\ RemoveEffect(last.key, last.items)
    /\ before' = [call |-> last, collections |-> state.collections]
    /\ UNCHANGED <<state, surface, clock, sync>>

(***************************************************************************)
(* createGet                                                               *)
(***************************************************************************)
\* a predicate function passed by the caller
Predicate(fn, item) ==
    CASE fn = "all" -> TRUE
      [] fn = "done" -> "done" \in DOMAIN item /\ item.done
      \* a function that returns "open" or "closed": both are truthy
      [] fn = "status" -> TRUE

\* Object.entries(operation) of a field-match object passed by the caller
Entries(match) ==
    CASE match = "{}" -> <<>>
      [] match = "{done: true}" ->
            <<[key |-> "done", isArray |-> FALSE, value |-> TRUE]>>
      [] match = "{done: [true, false]}" ->
            <<[key |-> "done", isArray |-> TRUE, value |-> <<TRUE, FALSE>>]>>
      [] match = "{id: [b], done: true}" ->
            <<[key |-> "id", isArray |-> TRUE, value |-> <<"b">>],
              [key |-> "done", isArray |-> FALSE, value |-> TRUE]>>

Matches == {"{}", "{done: true}", "{done: [true, false]}", "{id: [b], done: true}"}

\* an iterator for which one matching field of a field-match object is enough
IteratorAnyField(operation, item) ==
    CASE operation.kind = "fn" -> Predicate(operation.fn, item)
      [] operation.kind = "ids" -> Includes(operation.ids, item.id)
      [] operation.kind = "match" ->
            \E e \in 1..Len(Entries(operation.match)) :
                LET entry == Entries(operation.match)[e] IN
                /\ entry.key \in DOMAIN item
                /\ IF entry.isArray
                   THEN Includes(entry.value, item[entry.key])
                   ELSE item[entry.key] = entry.value

\* createIterator; a field the record lacks reads as undefined, which equals
\* no value and is included in no array of values
Iterator(operation, item) ==
    CASE operation.kind = "fn" -> Predicate(operation.fn, item)
      [] operation.kind = "ids" -> Includes(operation.ids, item.id)
      [] operation.kind = "match" ->
            \A e \in 1..Len(Entries(operation.match)) :
                LET entry == Entries(operation.match)[e] IN
                /\ entry.key \in DOMAIN item
                /\ IF entry.isArray
                   THEN Includes(entry.value, item[entry.key])
                   ELSE item[entry.key] = entry.value

\* for (const item of list) { if (count !== 0 && result.length >= count) break;
\*   if (!iterator(item)) continue; result.push(item) }, after list[1..i]
RECURSIVE Scan(_, _, _, _)
Scan(list, operation, count, i) ==
    IF i = 0 THEN <<>>
    ELSE LET result == Scan(list, operation, count, i - 1)
         IN  IF count # 0 /\ Len(result) >= count THEN result
             ELSE IF ~Iterator(operation, list[i]) THEN result
             ELSE Append(result, list[i])

NullResult == [kind |-> "null"]
ItemResult(item) == [kind |-> "item", item |-> item]
ListResult(list) == [kind |-> "list", list |-> list]

Returns(value) == [outcome |-> "ok", message |-> "", value |-> value]
Throws(message) == [outcome |-> "Error", message |-> message, value |-> NullResult]
ThrowsTypeError == [outcome |-> "TypeError", message |-> "", value |-> NullResult]

\* get keeping the last match of an id instead of the first
GetFindLastOutcome(list, operation, count, assert) ==
    IF operation.kind = "null" THEN Returns(NullResult)
    ELSE IF operation.kind = "id" /\ count > 1
    THEN Throws("Cannot use ID with count")
    ELSE IF ~list.defined THEN ThrowsTypeError
    ELSE IF operation.kind = "id"
    THEN LET found == {i \in 1..Len(list.array) : list.array[i].id = operation.id}
         IN  IF found = {}
             THEN IF assert THEN Throws("Item not found") ELSE Returns(NullResult)
             ELSE Returns(ItemResult(
                    list.array[CHOOSE i \in found : \A j \in found : i >= j]))
    ELSE LET result == Scan(list.array, operation, count, Len(list.array))
         IN  IF count # 0 /\ assert /\ Len(result) # count
             THEN Throws("Could not find all items")
             ELSE Returns(ListResult(result))

\* get scanning the whole list and keeping the last `count` matches
GetLastMatchesOutcome(list, operation, count, assert) ==
    IF operation.kind = "null" THEN Returns(NullResult)
    ELSE IF operation.kind = "id" /\ count > 1
    THEN Throws("Cannot use ID with count")
    ELSE IF ~list.defined THEN ThrowsTypeError
    ELSE IF operation.kind = "id"
    THEN LET found == {i \in 1..Len(list.array) : list.array[i].id = operation.id}
         IN  IF found = {}
             THEN IF assert THEN Throws("Item not found") ELSE Returns(NullResult)
             ELSE Returns(ItemResult(
                    list.array[CHOOSE i \in found : \A j \in found : i <= j]))
    ELSE LET all == Scan(list.array, operation, 0, Len(list.array))
             result == IF count = 0 \/ Len(all) <= count THEN all
                       ELSE SubSeq(all, Len(all) - count + 1, Len(all))
         IN  IF count # 0 /\ assert /\ Len(result) # count
             THEN Throws("Could not find all items")
             ELSE Returns(ListResult(result))

\* get comparing count with the number of all matches, not with the matches
\* it collected before it stopped
GetCountsAllMatchesOutcome(list, operation, count, assert) ==
    IF operation.kind = "null" THEN Returns(NullResult)
    ELSE IF operation.kind = "id" /\ count > 1
    THEN Throws("Cannot use ID with count")
    ELSE IF ~list.defined THEN ThrowsTypeError
    ELSE IF operation.kind = "id"
    THEN LET found == {i \in 1..Len(list.array) : list.array[i].id = operation.id}
         IN  IF found = {}
             THEN IF assert THEN Throws("Item not found") ELSE Returns(NullResult)
             ELSE Returns(ItemResult(
                    list.array[CHOOSE i \in found : \A j \in found : i <= j]))
    ELSE LET result == Scan(list.array, operation, count, Len(list.array))
             all == Scan(list.array, operation, 0, Len(list.array))
         IN  IF count # 0 /\ assert /\ Len(all) # count
             THEN Throws("Could not find all items")
             ELSE Returns(ListResult(result))

\* get looking the id up before it looks at count
GetFindBeforeCountOutcome(list, operation, count, assert) ==
    IF operation.kind = "null" THEN Returns(NullResult)
    ELSE IF ~list.defined THEN ThrowsTypeError
    ELSE IF operation.kind = "id"
    THEN LET found == {i \in 1..Len(list.array) : list.array[i].id = operation.id}
         IN  IF found = {}
             THEN IF assert THEN Throws("Item not found")
                  ELSE IF count > 1 THEN Throws("Cannot use ID with count")
                  ELSE Returns(NullResult)
             ELSE IF count > 1 THEN Throws("Cannot use ID with count")
             ELSE Returns(ItemResult(
                    list.array[CHOOSE i \in found : \A j \in found : i <= j]))
    ELSE LET result == Scan(list.array, operation, count, Len(list.array))
         IN  IF count # 0 /\ assert /\ Len(result) # count
             THEN Throws("Could not find all items")
             ELSE Returns(ListResult(result))

\* get answering the null selector with an empty array
GetNullAsEmptyOutcome(list, operation, count, assert) ==
    IF operation.kind = "null" THEN Returns(ListResult(<<>>))
    ELSE IF operation.kind = "id" /\ count > 1
    THEN Throws("Cannot use ID with count")
    ELSE IF ~list.defined THEN ThrowsTypeError
    ELSE IF operation.kind = "id"
    THEN LET found == {i \in 1..Len(list.array) : list.array[i].id = operation.id}
         IN  IF found = {}
             THEN IF assert THEN Throws("Item not found") ELSE Returns(NullResult)
             ELSE Returns(ItemResult(
                    list.array[CHOOSE i \in found : \A j \in found : i <= j]))
    ELSE LET result == Scan(list.array, operation, count, Len(list.array))
         IN  IF count # 0 /\ assert /\ Len(result) # count
             THEN Throws("Could not find all items")
             ELSE Returns(ListResult(result))

\* the function createGet returns, applied to (operation, count = 0, assert)
GetOutcome(list, operation, count, assert) ==
    IF operation.kind = "null" THEN Returns(NullResult)
    ELSE IF operation.kind = "id" /\ count > 1
    THEN Throws("Cannot use ID with count")
    ELSE IF ~list.defined THEN ThrowsTypeError
    ELSE IF operation.kind = "id"
    THEN LET found == {i \in 1..Len(list.array) : list.array[i].id = operation.id}
         IN  IF found = {}
             THEN IF assert THEN Throws("Item not found") ELSE Returns(NullResult)
             ELSE Returns(ItemResult(
                    list.array[CHOOSE i \in found : \A j \in found : i <= j]))
    ELSE LET result == Scan(list.array, operation, count, Len(list.array))
         IN  IF count # 0 /\ assert /\ Len(result) # count
             THEN Throws("Could not find all items")
             ELSE Returns(ListResult(result))

\* selectors given to get
GetOperations ==
    {[kind |-> "null"]}
    \cup {[kind |-> "id", id |-> i] : i \in Ids \cup {AbsentId}}
    \cup {[kind |-> "ids", ids |-> l] : l \in SeqsUpTo(Ids, MaxArgs)}
    \cup {[kind |-> "fn", fn |-> f] : f \in {"all", "done"}}
    \cup {[kind |-> "match", match |-> m] : m \in Matches}

Get(key, operation, count, assert) ==
    /\ last = NoCall
    /\ last' = [op |-> "get", key |-> key, operation |-> operation,
                count |-> count, assert |-> assert,
                pre |-> inner(state, key)]
               @@ GetOutcome(inner(state, key), operation, count, assert)
    /\ UNCHANGED <<state, surface, source, before, clock, sync>>

(***************************************************************************)
(* getAll                                                                  *)
(***************************************************************************)
GetAll(key) ==
    /\ last = NoCall
    /\ last' = [op |-> "getAll", key |-> key, outcome |-> "ok",
                value |-> inner(state, key)]
    /\ UNCHANGED <<state, surface, source, before, clock, sync>>

(***************************************************************************)
(* createAggregate.  JavaScript values of several types meet here, so a    *)
(* value carries its type: Undefined, Bool(b), Num(n), Text(s).            *)
(***************************************************************************)
Undefined == [type |-> "undefined"]
Bool(b) == [type |-> "boolean", boolean |-> b]
Num(n) == [type |-> "number", number |-> n]
Text(s) == [type |-> "string", string |-> s]

\* value[operation]: the field of a record, undefined when the record lacks it
FieldValue(item, field) ==
    IF field \notin DOMAIN item THEN Undefined
    ELSE CASE field = "done" -> Bool(item.done)
           [] field = "updated" -> Num(item.updated)
           [] field = "id" -> Text(item.id)

\* a function passed by the caller that derives a string from the record
Derived(fn, item) ==
    CASE fn = "status" ->
            Text(IF "done" \in DOMAIN item /\ item.done THEN "closed" ELSE "open")

\* String(n) of a natural number
Digit == <<"0", "1", "2", "3", "4", "5", "6", "7", "8", "9">>
RECURSIVE DecimalString(_)
DecimalString(n) ==
    IF n < 10 THEN Digit[n + 1]
    ELSE DecimalString(n \div 10) \o Digit[(n % 10) + 1]

\* String(inner)
String(v) ==
    CASE v.type = "undefined" -> "undefined"
      [] v.type = "boolean" -> IF v.boolean THEN "true" ELSE "false"
      [] v.type = "number" -> DecimalString(v.number)
      [] v.type = "string" -> v.string

\* typeof operation === "function" ? operation(value) : value[operation]
Bucket(operation, item) ==
    IF operation.kind = "fn" THEN Derived(operation.fn, item)
    ELSE FieldValue(item, operation.field)

\* const result = {}: an object literal inherits the properties of
\* Object.prototype, so result[key] reads the inherited property when result
\* has no property of its own under key.  String(Object) is the text below.
ObjectPrototype == [constructor |-> "function Object() { [native code] }"]

PropertyOf(result, key) ==
    IF key \in DOMAIN result THEN result[key]
    ELSE IF key \in DOMAIN ObjectPrototype THEN Text(ObjectPrototype[key])
    ELSE Undefined

\* result[innerAsString] || 0: undefined is falsy; a count of at least one
\* and a non-empty text are truthy
Current(result, key) ==
    IF PropertyOf(result, key).type = "undefined" THEN Num(0)
    ELSE PropertyOf(result, key)

\* current + 1: addition on a number, concatenation on anything else
PlusOne(current) ==
    IF current.type = "number" THEN Num(current.number + 1)
    ELSE Text(current.string \o "1")

\* result[innerAsString] = current + 1
Assign(result, key, v) ==
    [k \in DOMAIN result \cup {key} |-> IF k = key THEN v ELSE result[k]]

\* array.forEach(...) after array[1..i]
RECURSIVE AggregateResult(_, _, _)
AggregateResult(array, operation, i) ==
    IF i = 0 THEN << >>
    ELSE LET result == AggregateResult(array, operation, i - 1)
             innerAsString == String(Bucket(operation, array[i]))
         IN  Assign(result, innerAsString,
                    PlusOne(Current(result, innerAsString)))

\* selectors given to aggregate: a field name or a function
AggregateOperations ==
    {[kind |-> "field", field |-> f] : f \in {"id", "done", "updated"}}
    \cup {[kind |-> "fn", fn |-> "status"]}

Aggregate(key, operation) ==
    LET array == inner(state, key) IN
    /\ last = NoCall
    /\ last' = [op |-> "aggregate", key |-> key, operation |-> operation,
                pre |-> array,
                outcome |-> IF array.defined THEN "ok" ELSE "TypeError",
                value |-> IF array.defined
                          THEN AggregateResult(array.array, operation,
                                               Len(array.array))
                          ELSE << >>]
    /\ UNCHANGED <<state, surface, source, before, clock, sync>>

(***************************************************************************)
(* useGet and useAggregate, called while a component renders: useStore      *)
(* gives the collection the store holds at that time.                      *)
(***************************************************************************)
UseGet(key, operation, count, assert) ==
    LET value == inner(state, key) IN
    /\ last = NoCall
    /\ last' = [op |-> "useGet", key |-> key, operation |-> operation,
                count |-> count, assert |-> assert, pre |-> value]
               @@ GetOutcome(value, operation, count, assert)
    /\ UNCHANGED <<state, surface, source, before, clock, sync>>

\* what createGet makes of the selector of an aggregation: a string is an
\* id, a function is a predicate
AsGetOperation(operation) ==
    IF operation.kind = "field" THEN [kind |-> "id", id |-> operation.field]
    ELSE [kind |-> "fn", fn |-> operation.fn]

\* const innerGet = createGet(() => value);
\* return innerGet(operation, count, assert), with count = 0 and no assert
UseAggregate(key, operation) ==
    LET value == inner(state, key) IN
    /\ last = NoCall
    /\ last' = [op |-> "useAggregate", key |-> key, operation |-> operation,
                pre |-> value]
               @@ GetOutcome(value, AsGetOperation(operation), 0, FALSE)
    /\ UNCHANGED <<state, surface, source, before, clock, sync>>

(***************************************************************************)
(* The zustand store: setState assigns the new state and then calls every  *)
(* listener with (state, previousState), synchronously, before it returns. *)
(***************************************************************************)
\* the two states differ at name k of one of their two parts
Differs(a, b, k) ==
    \/ (k \in DOMAIN a) # (k \in DOMAIN b)
    \/ (k \in DOMAIN a /\ k \in DOMAIN b /\ a[k] # b[k])

\* getObjectDiff(a, b) of superdiff, read as the paths at which a and b differ
getObjectDiff(a, b) ==
    {<<"values", k>> : k \in {n \in DOMAIN a.values \cup DOMAIN b.values :
                                Differs(a.values, b.values, n)}}
    \cup {<<"collections", k>> :
            k \in {n \in DOMAIN a.collections \cup DOMAIN b.collections :
                    Differs(a.collections, b.collections, n)}}

\* what one invocation of the caller's push hook does: whether it calls
\* getDiff, and how it ends (push returns void or a promise)
HookOutcomes == {"returns", "throws", "rejects", "pending"}
HookRuns == [reads : BOOLEAN, outcome : HookOutcomes]
Runs(subscribed) ==
    IF "push" \in subscribed THEN HookRuns
    ELSE {[reads |-> FALSE, outcome |-> "returns"]}

\* a store that calls its listeners before it assigns the new state
NotifiedBeforeAssign(subscribed, prevState, newState, run) ==
    IF "push" \notin subscribed THEN NoPush
    ELSE [count |-> 1, prev |-> prevState, next |-> newState,
          seen |-> prevState,
          reads |-> run.reads,
          computed |-> IF run.reads THEN 1 ELSE 0,
          diff |-> IF run.reads THEN getObjectDiff(prevState, newState) ELSE {},
          outcome |-> run.outcome]

\* the listener create subscribes: props.push({store, getDiff: () =>
\* getObjectDiff(prevState, newState)}); seen is what internal.getState()
\* gives the hook through the store it is handed, the state being assigned
\* before the listeners are called
Notified(subscribed, prevState, newState, run) ==
    IF "push" \notin subscribed THEN NoPush
    ELSE [count |-> 1, prev |-> prevState, next |-> newState,
          seen |-> newState,
          reads |-> run.reads,
          computed |-> IF run.reads THEN 1 ELSE 0,
          diff |-> IF run.reads THEN getObjectDiff(prevState, newState) ELSE {},
          outcome |-> run.outcome]

\* an exception thrown by a listener leaves setState and reaches its caller
Propagated(push) == push.count > 0 /\ push.outcome = "throws"

(***************************************************************************)
(* values.<slot>.get and values.<slot>.set                                 *)
(***************************************************************************)
\* if ((assert && inner === null) || inner === undefined) throw ...
ValueGetOutcome(current, assert) ==
    IF (assert /\ current = NullValue) \/ current = UndefinedValue
    THEN Throws("Value is required")
    ELSE Returns(current)

ValueGet(key, assert) ==
    /\ last = NoCall
    /\ last' = [op |-> "values.get", key |-> key, assert |-> assert,
                current |-> state.values[key]]
               @@ ValueGetOutcome(state.values[key], assert)
    /\ UNCHANGED <<state, surface, source, before, clock, sync>>

\* functions passed to set by the caller: one that switches the slot
\* between "all" and null, and one that throws
Updaters == {"toggle", "fails"}
Update(fn, current) ==
    CASE fn = "toggle" -> Returns(IF current = "all" THEN NullValue ELSE "all")
      [] fn = "fails" -> Throws("update failed")

\* typeof newValue === "function" ? newValue(prev.values[key]) : newValue
NewValue(newValue, current) ==
    IF newValue \in Updaters THEN Update(newValue, current)
    ELSE Returns(newValue)

\* a set that forgets to spread prev.values
ValueSetAloneState(prev, key, v) == [prev EXCEPT !.values = [k \in {key} |-> v]]

\* {...prev, values: {...prev.values, [key]: v}}
ValueSetState(prev, key, v) == [prev EXCEPT !.values[key] = v]

\* a set that clears the slot before it calls the update function
ValueSetClearingOutcome(prev, key, newValue) ==
    LET v == NewValue(newValue, prev.values[key])
    IN  IF v.outcome = "ok"
        THEN [outcome |-> "ok", message |-> "",
              state |-> ValueSetState(prev, key, v.value)]
        ELSE [outcome |-> "Error", message |-> v.message,
              state |-> ValueSetState(prev, key, UndefinedValue)]

\* internal.setState((prev) => ...): the function runs before setState
\* assigns, so when the update function throws the state stays as it was
ValueSetOutcome(prev, key, newValue) ==
    LET v == NewValue(newValue, prev.values[key])
    IN  IF v.outcome = "ok"
        THEN [outcome |-> "ok", message |-> "",
              state |-> ValueSetState(prev, key, v.value)]
        ELSE [outcome |-> "Error", message |-> v.message, state |-> prev]

ValueSet(key, newValue) ==
    LET result == ValueSetOutcome(state, key, newValue) IN
    /\ last = NoCall
    /\ state' = result.state
    /\ \E run \in Runs(listeners) :
        /\ pushed' = IF result.outcome = "ok"
                     THEN Notified(listeners, state, result.state, run)
                     ELSE NoPush
        /\ last' = [op |-> "values.set", key |-> key, newValue |-> newValue,
                    prior |-> state,
                    outcome |-> IF result.outcome = "ok" /\ Propagated(pushed')
                                THEN "HookError" ELSE result.outcome,
                    message |-> result.message]
    /\ UNCHANGED <<surface, source, before, clock, hooks, phase, listeners, pulls>>

\* the zustand store is handed out as store.internal: a caller, or a pull
\* hook, replaces a collection with internal.setState
Replacements == SeqsUpTo(StoreItems, 1)

InternalSetState(key, c) ==
    /\ last = NoCall
    /\ state.collections[key] # c
    /\ state' = [state EXCEPT !.collections[key] = c]
    /\ \E run \in Runs(listeners) :
        /\ pushed' = Notified(listeners, state, state', run)
        /\ last' = [op |-> "setState", key |-> key,
                    outcome |-> IF Propagated(pushed') THEN "HookError" ELSE "ok"]
    /\ UNCHANGED <<surface, source, before, clock, hooks, phase, listeners, pulls>>

(***************************************************************************)
(* create with hooks, step by step: the surfaces are built, then the push  *)
(* hook is subscribed, then the pull hook is invoked, then create returns. *)
(***************************************************************************)
Props == [push : BOOLEAN, pull : BOOLEAN]

\* create has built the store and the surfaces and has not yet looked at
\* props.push and props.pull; the call in progress is create itself
InCreate == [op |-> "create"]

Constructing(initial, props) ==
    /\ state = initial
    /\ surface = SurfaceKeys(initial)
    /\ source = [k \in SurfaceKeys(initial) |-> inner(initial, k)]
    /\ last = InCreate
    /\ before = NoCall
    /\ clock = 1
    /\ hooks = props
    /\ phase = "subscribe"
    /\ listeners = {}
    /\ pushed = NoPush
    /\ pulls = 0

\* a create that invokes the pull hook first and subscribes the push hook
\* when the pull hook has returned
SubscribersAfterPull(props) == IF props.push /\ ~props.pull THEN {"push"} ELSE {}

\* if (props.push) internal.subscribe(...)
Subscribers(props) == IF props.push THEN {"push"} ELSE {}

SubscribePush ==
    /\ phase = "subscribe"
    /\ listeners' = Subscribers(hooks)
    /\ phase' = "pull"
    /\ UNCHANGED <<state, surface, source, last, before, clock, hooks, pushed, pulls>>

\* a create that leaves the pull hook for later and returns the store
PullDeferred ==
    /\ phase = "pull"
    /\ phase' = "ready"
    /\ last' = NoCall
    /\ UNCHANGED <<state, surface, source, before, clock, hooks,
                   listeners, pushed, pulls>>

\* if (props.pull) props.pull({store, calcDiff}): the hook starts to run
\* inside create and may call the store; without a pull hook create returns
\* the store
Pull ==
    /\ phase = "pull"
    /\ pulls' = IF hooks.pull THEN pulls + 1 ELSE pulls
    /\ phase' = IF hooks.pull THEN "pulling" ELSE "ready"
    /\ last' = NoCall
    /\ UNCHANGED <<state, surface, source, before, clock, hooks,
                   listeners, pushed>>

\* props.pull returns (its promise, if any, is dropped); return store
PullReturns ==
    /\ phase = "pulling"
    /\ last = NoCall
    /\ phase' = "ready"
    /\ UNCHANGED <<state, surface, source, last, before, clock, hooks,
                   listeners, pushed, pulls>>

\* states the pull hook compares the store with
Candidates(st) ==
    {st}
    \cup {[st EXCEPT !.values[k] = "all"] : k \in DOMAIN st.values}
    \cup {[st EXCEPT !.collections[k] = c] :
            k \in DOMAIN st.collections, c \in Replacements}

\* calcDiff: (newData) => getObjectDiff(internal.getState(), newData)
CalcDiff(newData) ==
    /\ last = NoCall
    /\ pulls > 0
    /\ last' = [op |-> "calcDiff", newData |-> newData, prior |-> state,
                outcome |-> "ok", value |-> getObjectDiff(state, newData)]
    /\ UNCHANGED <<state, surface, source, before, clock, sync>>

Tick ==
    /\ last = NoCall
    /\ clock < MaxClock
    /\ clock' = clock + 1
    /\ UNCHANGED <<state, surface, source, last, before, sync>>

\* the caller takes the result; the next call starts from here
Return ==
    /\ last # NoCall
    /\ last.op # "create"
    /\ last' = NoCall
    /\ before' = NoCall
    /\ pushed' = NoPush
    /\ UNCHANGED <<state, surface, source, clock, hooks, phase, listeners, pulls>>

(***************************************************************************)
(* Specifications.  Spec is the store that create({initial}) returns,     *)
(* with every collection operation and the plain value reads and writes.   *)
(* The others hold one family of operations each, over every initial       *)
(* collection: the operations' results depend on nothing the left-out      *)
(* actions change.  Those that start from InitSync or InitPush begin       *)
(* inside create, before the hooks are attached.                           *)
(***************************************************************************)
AddCalls ==
    \E k \in surface, items \in SeqsUpTo(AddItems, MaxLen), p \in Positions :
        Add(k, items, p)

SetCalls ==
    \E k \in surface, items \in SeqsUpTo(SetItems, MaxArgs), strict \in BOOLEAN :
        Set(k, items, strict)

RemoveCalls == \E k \in surface, items \in RemoveItems : Remove(k, items)

GetCalls ==
    \E k \in surface, operation \in GetOperations, count \in 0..MaxCount,
       assert \in BOOLEAN :
        Get(k, operation, count, assert)

GetAllCalls == \E k \in surface : GetAll(k)

AggregateCalls ==
    \E k \in surface, operation \in AggregateOperations : Aggregate(k, operation)

ValueGetCalls == \E k \in DOMAIN state.values, assert \in BOOLEAN : ValueGet(k, assert)

ValueSetCalls == \E k \in DOMAIN state.values, v \in SlotValues : ValueSet(k, v)

\* set with undefined and set with a function
ValueUpdateCalls ==
    \E k \in DOMAIN state.values, v \in {UndefinedValue} \cup Updaters :
        ValueSet(k, v)

CalcDiffCalls == \E newData \in Candidates(state) : CalcDiff(newData)

Replace ==
    \E k \in DOMAIN state.collections, c \in Replacements : InternalSetState(k, c)

Next ==
    \/ AddCalls
    \/ SetCalls
    \/ RemoveCalls
    \/ RemoveAgain
    \/ GetCalls
    \/ GetAllCalls
    \/ AggregateCalls
    \/ ValueGetCalls
    \/ ValueSetCalls
    \/ Replace
    \/ Tick
    \/ Return

Spec == Init /\ [][Next]_vars

\* create has built a surface for every collection, and for nothing else
InitAgree == Init /\ surface = DOMAIN state.collections

NextAdd == AddCalls \/ Tick \/ Return
SpecAdd == InitAgree /\ [][NextAdd]_vars

NextSet == SetCalls \/ Tick \/ Return
SpecSet == InitAgree /\ [][NextSet]_vars

NextRemove == RemoveCalls \/ RemoveAgain \/ Replace \/ Return
SpecRemove == Init /\ [][NextRemove]_vars

NextGet == GetCalls \/ Return
SpecGet == InitAgree /\ [][NextGet]_vars

\* aggregate, over collections that also hold a record whose id is the name
\* of a property of Object.prototype
AggregateItems == StoreItems \cup {[id |-> "constructor", updated |-> 2]}

InitAggregate ==
    \E c \in SeqsUpTo(AggregateItems, MaxLen) :
        Created([values |-> [n \in CollNames |-> NullValue],
                 collections |-> [n \in CollNames |-> c]])

\* the value slots, over every initial set of slot names
NextValues == ValueGetCalls \/ ValueSetCalls \/ ValueUpdateCalls \/ Return
SpecValues == Init /\ [][NextValues]_vars

\* create with hooks and what follows it: value writes and the pull hook's
\* calcDiff
InitSync ==
    \E c \in Collections, props \in Props :
        Constructing([values |-> [n \in CollNames |-> NullValue],
                      collections |-> [n \in CollNames |-> c]], props)

NextSync ==
    \/ SubscribePush
    \/ Pull
    \/ PullReturns
    \/ ValueSetCalls
    \/ ValueUpdateCalls
    \/ CalcDiffCalls
    \/ Return

SpecSync == InitSync /\ [][NextSync]_vars

\* the same with the collection operations that compute a new array
NextPush ==
    \/ SubscribePush
    \/ Pull
    \/ PullReturns
    \/ ValueSetCalls
    \/ AddCalls
    \/ SetCalls
    \/ RemoveCalls
    \/ Return

SpecPush == InitSync /\ [][NextPush]_vars

\* the operations that can fail, on a store whose push hook is subscribed
InitPush ==
    \E c \in Collections :
        Constructing([values |-> [n \in CollNames |-> NullValue],
                      collections |-> [n \in CollNames |-> c]],
                     [push |-> TRUE, pull |-> FALSE])

NextFailures ==
    \/ SubscribePush
    \/ Pull
    \/ GetCalls
    \/ SetCalls
    \/ ValueGetCalls
    \/ ValueSetCalls
    \/ ValueUpdateCalls
    \/ Return

SpecFailures == InitPush /\ [][NextFailures]_vars

\* every collection operation, between replacements of the collection
NextFresh ==
    \/ GetCalls
    \/ GetAllCalls
    \/ AggregateCalls
    \/ AddCalls
    \/ SetCalls
    \/ RemoveCalls
    \/ Replace
    \/ Return

SpecFresh == InitAgree /\ [][NextFresh]_vars

\* add and set over records stamped at or after the current time, with
\* patches that carry an updated field of their own
StampedItems ==
    {[id |-> "a", updated |-> 1], [id |-> "b", updated |-> 2, done |-> FALSE]}

StampedPatches ==
    {[id |-> i] : i \in Ids} \cup {[id |-> i, updated |-> 0] : i \in Ids}

InitStamp ==
    \E c \in SeqsUpTo(StampedItems, MaxLen) :
        Created([values |-> [n \in CollNames |-> NullValue],
                 collections |-> [n \in CollNames |-> c]])

SetStampedCalls ==
    \E k \in surface, items \in SeqsUpTo(StampedPatches, MaxArgs),
       strict \in BOOLEAN :
        Set(k, items, strict)

NextStamp == AddCalls \/ SetStampedCalls \/ Tick \/ Return
SpecStamp == InitStamp /\ [][NextStamp]_vars

\* the reactive variants beside the plain operations
UseGetCalls ==
    \E k \in surface, operation \in GetOperations, count \in 0..MaxCount,
       assert \in BOOLEAN :
        UseGet(k, operation, count, assert)

UseAggregateCalls ==
    \E k \in surface, operation \in AggregateOperations :
        UseAggregate(k, operation)

NextReactive ==
    \/ GetCalls
    \/ UseGetCalls
    \/ AggregateCalls
    \/ UseAggregateCalls
    \/ Return

SpecReactive == InitAgree /\ [][NextReactive]_vars

NextAggregate == AggregateCalls \/ Return
SpecAggregate == InitAggregate /\ [][NextAggregate]_vars

(***************************************************************************)
(* The claims.  `Held(k)` is the collection the store holds under k.       *)
(***************************************************************************)
Held(k) == state.collections[k]
OnCollection(op) == last.op = op /\ last.key \in DOMAIN state.collections

\* C1: after add, set or remove returns normally, the store's collection of
\* that name is the array the call returned (so getAll reads that array).
C1_StoreHoldsReturnedArray ==
    (last.op \in {"add", "set", "remove"} /\ last.outcome = "ok")
        => inner(state, last.key) = Some(last.value)

\* C2: every collection name of the initial state has a surface
\* collections[k], and getAll through it reads the store's collection k.
C2_SurfaceForEveryCollection ==
    \A k \in DOMAIN state.collections :
        /\ k \in surface
        /\ (last.op = "getAll" /\ last.key = k) => last.value = Some(Held(k))

\* C3: the array add returns is as long as the collection plus the list of
\* items, whether or not an item carries an id the collection already holds.
C3_AddLength ==
    OnCollection("add") =>
        /\ last.outcome = "ok"
        /\ Len(last.value) = Len(Held(last.key)) + Len(last.items)

C3_Witness ==
    /\ OnCollection("add")
    /\ last.outcome = "ok"
    /\ \E i \in 1..Len(last.items), j \in 1..Len(Held(last.key)) :
            /\ "id" \in DOMAIN last.items[i]
            /\ last.items[i].id = Held(last.key)[j].id

\* r is item with id and updated filled in: what the item supplies is kept
StampOf(r, item) ==
    /\ DOMAIN r = DOMAIN item \cup {"id", "updated"}
    /\ \A f \in DOMAIN item \ {"id", "updated"} : r[f] = item[f]
    /\ ("id" \in DOMAIN item /\ item.id # "") => r.id = item.id
    /\ ("updated" \in DOMAIN item /\ item.updated # 0) => r.updated = item.updated

\* C4: add(L, "start") returns the stamped new records in input order, then
\* the prior records in their order; add(L, "end") and add(L) return the
\* prior records in their order, then the stamped new records in input order.
C4_AddOrder ==
    OnCollection("add") =>
        LET prior == Held(last.key)
            n == Len(last.items)
            newAt == IF last.position = "start" THEN 0 ELSE Len(prior)
            priorAt == IF last.position = "start" THEN n ELSE 0
        IN  /\ last.outcome = "ok"
            /\ Len(last.value) = Len(prior) + n
            /\ \A j \in 1..Len(prior) : last.value[priorAt + j] = prior[j]
            /\ \A i \in 1..n : StampOf(last.value[newAt + i], last.items[i])

C4_Witness ==
    /\ OnCollection("add")
    /\ last.position = "start"
    /\ Len(last.items) = 2
    /\ "done" \in DOMAIN last.items[1]
    /\ "done" \notin DOMAIN last.items[2]
    /\ "done" \in DOMAIN last.value[1]

\* r is the shallow merge of record c with the fields of patch (updated is
\* refreshed by set)
MergeOf(r, c, patch) ==
    /\ DOMAIN r = DOMAIN c \cup DOMAIN patch
    /\ \A f \in DOMAIN r \ {"updated"} :
            r[f] = IF f \in DOMAIN patch THEN patch[f] ELSE c[f]

\* C5: set returns a collection of the same length and order in which every
\* record whose id matches a patch is the merge of the record with that
\* patch, also when two records carry the same id, and every other record is
\* unchanged.
C5_SetMergesEveryMatch ==
    (OnCollection("set") /\ last.outcome = "ok") =>
        LET prior == Held(last.key) IN
        /\ Len(last.value) = Len(prior)
        /\ \A i \in 1..Len(prior) :
                IF \E j \in 1..Len(last.items) : last.items[j].id = prior[i].id
                THEN \E j \in 1..Len(last.items) :
                        /\ last.items[j].id = prior[i].id
                        /\ MergeOf(last.value[i], prior[i], last.items[j])
                ELSE last.value[i] = prior[i]

\* C5 holds of collections that keep ids unique: the divergence is the
\* second record of a repeated id
C5_SetMergesUniqueIds ==
    (\A k \in DOMAIN state.collections : \A i, j \in 1..Len(Held(k)) :
        Held(k)[i].id = Held(k)[j].id => i = j)
        => C5_SetMergesEveryMatch

\* the patches of a list whose id some record of the collection carries
Present(items, c) ==
    SelectSeq(items, LAMBDA p : \E i \in 1..Len(c) : c[i].id = p.id)
Absent(items, c) ==
    SelectSeq(items, LAMBDA p : \A i \in 1..Len(c) : c[i].id # p.id)

\* C6: with strict false, set does not fail and patches with absent ids
\* have no effect: the result is that of set without them; with strict true
\* and an absent id, set fails naming the first absent patch id.
C6_SetAbsentIds ==
    OnCollection("set") =>
        LET prior == Held(last.key)
            absent == Absent(last.items, prior)
        IN  /\ ~last.strict =>
                /\ last.outcome = "ok"
                /\ last.value =
                    SetOutcome(prior, Present(last.items, prior), FALSE,
                               last.now).value
            /\ (last.strict /\ Len(absent) > 0) =>
                /\ last.outcome = "Error"
                /\ last.id = absent[1].id
            /\ (last.strict /\ Len(absent) = 0) => last.outcome = "ok"

C6_Witness ==
    /\ OnCollection("set")
    /\ last.strict
    /\ last.outcome = "Error"
    /\ Len(Absent(last.items, Held(last.key))) = 2
    /\ last.items[1].id # last.items[2].id
    /\ last.id = last.items[1].id

\* the ids of the argument of remove, a list of ids or a list of records
IdsOf(items) ==
    {IF items.kind = "ids" THEN items.list[i] ELSE items.list[i].id :
        i \in 1..Len(items.list)}

\* C7: remove(x) returns exactly the records of the current collection whose
\* id is not among the ids of x, in their order.
C7_RemoveFiltersCurrent ==
    OnCollection("remove") =>
        /\ last.outcome = "ok"
        /\ last.value =
            SelectSeq(Held(last.key), LAMBDA r : r.id \notin IdsOf(last.items))

\* C7 holds while the store still holds the array createRemove captured
C7_RemoveFiltersCaptured ==
    (\A k \in surface : source[k] = inner(state, k)) => C7_RemoveFiltersCurrent

\* C8: remove(S) called twice in a row: the second call returns what the
\* first returned and leaves the store's collections as the first left them.
C8_RemoveTwice ==
    before # NoCall =>
        /\ last.op = "remove"
        /\ last.outcome = before.call.outcome
        /\ last.value = before.call.value
        /\ state.collections = before.collections

C8_Witness ==
    /\ before # NoCall
    /\ last.outcome = "ok"
    /\ Len(source[last.key].array) = 2
    /\ source[last.key].array[1].id = source[last.key].array[2].id
    /\ last.value = <<>>

Matching(c, operation) ==
    IF operation.kind = "null" THEN <<>>
    ELSE SelectSeq(c, LAMBDA r : Iterator(operation, r))

\* the first min(n, m) of the m matches for count n > 0, all of them for 0
FirstMatches(c, operation, count) ==
    LET m == Matching(c, operation)
    IN  IF count = 0 \/ Len(m) <= count THEN m ELSE SubSeq(m, 1, count)

\* C10 as stated: for every non-string selector, get returns the first
\* min(n, m) matching records in collection order, all of them for count 0.
C10_GetFirstMatches ==
    (OnCollection("get") /\ last.operation.kind # "id" /\ last.outcome = "ok") =>
        last.value =
            ListResult(FirstMatches(Held(last.key), last.operation, last.count))

\* C10 as amended: for every non-string selector other than null, get
\* returns the first min(n, m) matching records in collection order, all of
\* them for count 0.
C10_GetFirstMatchesNonNull ==
    (/\ OnCollection("get")
     /\ last.operation.kind \notin {"id", "null"}
     /\ last.outcome = "ok") =>
        last.value =
            ListResult(FirstMatches(Held(last.key), last.operation, last.count))

C10_Witness ==
    /\ OnCollection("get")
    /\ last.operation.kind = "fn"
    /\ last.count = 1
    /\ last.outcome = "ok"
    /\ Len(Matching(Held(last.key), last.operation)) = 2
    /\ Held(last.key)[1] # Held(last.key)[2]
    /\ last.value = ListResult(<<Held(last.key)[1]>>)

C12_IdWithCount ==
    (last.op = "get" /\ last.operation.kind = "id") =>
        (last.count > 1
            <=> (/\ last.outcome = "Error"
                 /\ last.message = "Cannot use ID with count"))

\* no record carries the id and assert is true: still the selector error
C12_Witness ==
    /\ OnCollection("get")
    /\ last.operation.kind = "id"
    /\ last.count = 2
    /\ last.assert
    /\ \A i \in 1..Len(Held(last.key)) : Held(last.key)[i].id # last.operation.id
    /\ last.message = "Cannot use ID with count"

\* the string form of the bucket value of record r
BucketKey(operation, r) == String(Bucket(operation, r))

\* C13: aggregate(selector) returns a mapping whose keys are exactly the
\* distinct string forms of the bucket values of the records, each mapped to
\* the number of records with that bucket key; an empty collection gives the
\* empty mapping and a record lacking the field counts under "undefined".
C13_AggregateCounts ==
    OnCollection("aggregate") =>
        LET c == Held(last.key)
            keys == {BucketKey(last.operation, c[i]) : i \in 1..Len(c)}
        IN  /\ last.outcome = "ok"
            /\ DOMAIN last.value = keys
            /\ \A k \in keys :
                last.value[k] =
                    Num(Cardinality({i \in 1..Len(c) :
                                        BucketKey(last.operation, c[i]) = k}))

\* C13 holds of collections in which no bucket key names a property that
\* the result object inherits
C13_AggregateCountsOwnKeys ==
    (\A k \in DOMAIN state.collections : \A i \in 1..Len(Held(k)) :
        \A operation \in AggregateOperations :
            BucketKey(operation, Held(k)[i]) \notin DOMAIN ObjectPrototype)
        => C13_AggregateCounts

\* C14: values.<slot>.get(assert) fails, with "Value is required", exactly
\* when assert is true and the slot holds null or undefined; with assert
\* false it never fails and returns what the slot holds, null and undefined
\* included.
C14_ValueGet ==
    last.op = "values.get" =>
        LET current == state.values[last.key]
        IN  /\ last.outcome \in {"ok", "Error"}
            /\ last.outcome = "Error"
                <=> (last.assert /\ current \in {NullValue, UndefinedValue})
            /\ last.outcome = "Error" => last.message = "Value is required"
            /\ last.outcome = "ok" => last.value = current

\* C14 holds of stores in which no slot holds undefined
C14_ValueGetDefined ==
    (\A k \in DOMAIN state.values : state.values[k] # UndefinedValue)
        => C14_ValueGet

\* C15: values.<slot>.set(v) leaves v in the slot and set(fn) leaves fn of
\* the value the slot held when set was called; every other slot and every
\* collection is as it was before the call.
C15_ValueSetFrame ==
    (last.op = "values.set" /\ last.outcome = "ok") =>
        /\ DOMAIN state.values = DOMAIN last.prior.values
        /\ state.values[last.key] =
            IF last.newValue \in Updaters
            THEN Update(last.newValue, last.prior.values[last.key]).value
            ELSE last.newValue
        /\ \A k \in DOMAIN state.values \ {last.key} :
                state.values[k] = last.prior.values[k]
        /\ state.collections = last.prior.collections

\* the function form on a slot that was set before, beside another slot
\* that holds a value
C15_Witness ==
    /\ last.op = "values.set"
    /\ last.outcome = "ok"
    /\ last.newValue = "toggle"
    /\ last.prior.values[last.key] = "all"
    /\ state.values[last.key] = NullValue
    /\ \E k \in DOMAIN state.values \ {last.key} : state.values[k] = "all"

\* the calls that the specification describes as replacing the state
Mutations == {"values.set", "add", "set", "remove"}

\* C16 as stated: with a push hook configured, every successful value set
\* and collection add, set or remove invokes the hook exactly once, with a
\* getDiff that yields the diff between the state before and the state
\* after, computed only when the hook calls it.
C16_PushOncePerReplacement ==
    ("push" \in listeners /\ last.op \in Mutations
        /\ last.outcome \in {"ok", "HookError"}) =>
        /\ pushed.count = 1
        /\ pushed.next = state
        /\ pushed.computed = (IF pushed.reads THEN 1 ELSE 0)
        /\ pushed.reads => pushed.diff = getObjectDiff(pushed.prev, state)

\* C16 holds of the value set: one invocation, between the state before the
\* call and the state after it
C16_PushOncePerValueSet ==
    last.op = "values.set" =>
        /\ C16_PushOncePerReplacement
        /\ pushed.count = 1 => pushed.prev = last.prior

\* C17: create invokes a configured pull hook exactly once, inside create
\* and before the store is returned, and nothing invokes it again; calcDiff
\* returns the diff between the store's state at the time of the call and
\* the candidate, and leaves the state as it was.
C17_PullOnce ==
    /\ pulls = (IF hooks.pull /\ phase \in {"pulling", "ready"} THEN 1 ELSE 0)
    /\ last.op = "calcDiff" =>
        /\ state = last.prior
        /\ last.value = getObjectDiff(state, last.newData)

\* after create returned and a slot was written, calcDiff sees the written
\* state; the hook ran once
C17_Witness ==
    /\ hooks.pull
    /\ phase = "ready"
    /\ pulls = 1
    /\ last.op = "calcDiff"
    /\ \E k \in DOMAIN state.values : state.values[k] = "all"
    /\ last.newData.collections # state.collections
    /\ last.value = {<<"collections", "tasks">>}

\* C18 as stated: a value set that triggers the push hook returns normally
\* with the new state committed, whatever the hook does.
C18_ReturnsWhateverPushDoes ==
    (last.op = "values.set" /\ pushed.count = 1) =>
        /\ last.outcome = "ok"
        /\ state = pushed.next

\* C18 holds when the hook returns, also with a promise that rejects or
\* never settles; the state is committed in every case
C18_ReturnsUnlessPushThrows ==
    /\ (last.op = "values.set" /\ pushed.count = 1) => state = pushed.next
    /\ (pushed.count = 1 /\ pushed.outcome # "throws")
            => C18_ReturnsWhateverPushDoes

\* C19: no operation partially applies: a call that fails with "Value is
\* required", "Item not found", "Could not find all items", "Cannot use ID
\* with count", set's strict error, or the error of the update function given
\* to a value set, leaves the store's state as it was before the call and
\* invokes no listener.
C19_NoPartialApplication ==
    [][(/\ last = NoCall
        /\ last'.op \notin {"none", "create"}
        /\ last'.outcome = "Error")
            => (state' = state /\ pushed' = NoPush)]_vars

\* a failing update function, on a store with a subscribed push hook whose
\* slot was written before
C19_Witness ==
    /\ last.op = "values.set"
    /\ last.newValue = "fails"
    /\ last.outcome = "Error"
    /\ "push" \in listeners
    /\ state.values[last.key] = "all"

\* the result of the call `last` is the result of its operation on array c
ComputedFrom(c) ==
    CASE last.op = "get" ->
            LET r == GetOutcome(Some(c), last.operation, last.count, last.assert)
            IN  last.outcome = r.outcome /\ last.value = r.value
      [] last.op = "getAll" -> last.value = Some(c)
      [] last.op = "aggregate" ->
            last.value = AggregateResult(c, last.operation, Len(c))
      [] last.op = "add" ->
            last.value = AddResult(c, last.items, last.position, last.now)
      [] last.op = "set" ->
            LET r == SetOutcome(c, last.items, last.strict, last.now)
            IN  last.outcome = r.outcome /\ last.value = r.value
      [] last.op = "remove" -> last.value = RemoveResult(c, last.items)

CollectionOperations == {"get", "getAll", "aggregate", "add", "set", "remove"}

\* C20 as stated: whatever replacements came before, every collection
\* operation computes its result from the collection the store holds when
\* the operation is called.
C20_ReadsCurrentCollection ==
    (last.op \in CollectionOperations /\ last.key \in DOMAIN state.collections)
        => ComputedFrom(Held(last.key))

\* C20 holds of every collection operation but remove
C20_ReadsCurrentUnlessRemove ==
    last.op # "remove" => C20_ReadsCurrentCollection

\* record r has the field of a field-match entry, with the entry's value or
\* with one of the entry's values
SatisfiesEntry(r, entry) ==
    /\ entry.key \in DOMAIN r
    /\ IF entry.isArray
       THEN r[entry.key] \in {entry.value[i] : i \in 1..Len(entry.value)}
       ELSE r[entry.key] = entry.value

\* what a selector that is an array of ids or a field-match object selects
Selects(operation, r) ==
    IF operation.kind = "ids"
    THEN r.id \in {operation.ids[i] : i \in 1..Len(operation.ids)}
    ELSE \A e \in 1..Len(Entries(operation.match)) :
            SatisfiesEntry(r, Entries(operation.match)[e])

\* C21: with count 0, get with an array of ids returns exactly the records
\* whose id is in the array, and get with a field-match object returns
\* exactly the records that satisfy every given field, both in collection
\* order; a field-match object without fields selects every record.
C21_GetByIdsOrMatch ==
    (/\ OnCollection("get")
     /\ last.operation.kind \in {"ids", "match"}
     /\ last.count = 0) =>
        /\ last.outcome = "ok"
        /\ last.value =
            ListResult(SelectSeq(Held(last.key),
                                 LAMBDA r : Selects(last.operation, r)))
        /\ last.operation = [kind |-> "match", match |-> "{}"]
            => last.value = ListResult(Held(last.key))

\* two fields are given and a record satisfies only one of them
C21_Witness ==
    /\ OnCollection("get")
    /\ last.operation = [kind |-> "match", match |-> "{id: [b], done: true}"]
    /\ last.count = 0
    /\ \E i \in 1..Len(Held(last.key)) : Held(last.key)[i].id = "b"
    /\ last.value = ListResult(<<>>)

\* C22 as stated: get returns a single record or null only for an id
\* string and an array of records for every other selector; get(null)
\* returns an empty array for any collection.
C22_GetResultKinds ==
    (last.op = "get" /\ last.outcome = "ok") =>
        /\ last.operation.kind = "id" => last.value.kind \in {"item", "null"}
        /\ last.operation.kind # "id" => last.value.kind = "list"
        /\ last.operation.kind = "null" => last.value = ListResult(<<>>)

\* C22 as amended: get returns a single record or null for an id string,
\* null for the null selector, whatever the collection, count and assert
\* are, and an array of records for every other selector.
C22_GetResultKindsNullIsNull ==
    last.op = "get" =>
        /\ (last.outcome = "ok" /\ last.operation.kind = "id")
                => last.value.kind \in {"item", "null"}
        /\ (last.outcome = "ok" /\ last.operation.kind \notin {"id", "null"})
                => last.value.kind = "list"
        /\ last.operation.kind = "null"
                => (last.outcome = "ok" /\ last.value = NullResult)

\* get(null, 2, true) on a collection that holds records
C22_Witness ==
    /\ OnCollection("get")
    /\ last.operation.kind = "null"
    /\ last.count = 2
    /\ last.assert
    /\ Len(Held(last.key)) = 2
    /\ last.value = NullResult

\* the record that add returned for its i-th item
AddedFor(i) ==
    last.value[(IF last.position = "start" THEN 0 ELSE Len(last.pre.array)) + i]

\* r keeps what item supplies and is given only what item lacks
KeepsSupplied(r, item, now) ==
    /\ DOMAIN r = DOMAIN item \cup {"id", "updated"}
    /\ \A f \in DOMAIN item : r[f] = item[f]
    /\ "id" \notin DOMAIN item => \E n \in 1..Len(UUIDs) : r.id = createId(n)
    /\ "updated" \notin DOMAIN item => r.updated = now

\* C23 as stated: the record add makes of an item keeps the id and the
\* updated value the item carries, the empty id and the timestamp 0
\* included, is given a generated id or the current time only for a field
\* the item lacks, and keeps every other field of the item.
C23_AddKeepsSupplied ==
    (OnCollection("add") /\ last.outcome = "ok") =>
        \A i \in 1..Len(last.items) :
            KeepsSupplied(AddedFor(i), last.items[i], last.now)

\* C23 holds of items whose id is not empty and whose updated is not 0
C23_AddKeepsTruthy ==
    (last.op = "add"
        /\ \A i \in 1..Len(last.items) :
            /\ "id" \in DOMAIN last.items[i] => last.items[i].id # ""
            /\ "updated" \in DOMAIN last.items[i] => last.items[i].updated # 0)
        => C23_AddKeepsSupplied

\* what set does to the updated field: a record whose id no patch names
\* keeps it, a record that set changed carries the current time, and so
\* does a record for every patch whose id the collection holds
SetRefreshesUpdated ==
    (OnCollection("set") /\ last.outcome = "ok") =>
        LET prior == Held(last.key)
            named == {last.items[j].id : j \in 1..Len(last.items)}
        IN  /\ Len(last.value) = Len(prior)
            /\ \A i \in 1..Len(prior) :
                /\ prior[i].id \notin named
                    => last.value[i].updated = prior[i].updated
                /\ last.value[i] # prior[i]
                    => last.value[i].updated = last.now
            /\ \A id \in named :
                (\E i \in 1..Len(prior) : prior[i].id = id)
                    => \E i \in 1..Len(prior) :
                        /\ prior[i].id = id
                        /\ last.value[i].updated = last.now

\* add returns the prior records as they are
AddKeepsPriorRecords ==
    (OnCollection("add") /\ last.outcome = "ok") =>
        LET prior == Held(last.key)
            priorAt == IF last.position = "start" THEN Len(last.items) ELSE 0
        IN  \A j \in 1..Len(prior) : last.value[priorAt + j] = prior[j]

\* C24 as stated: across add and set, under a clock that does not go back,
\* the updated value of a record never decreases; a record patched by set
\* carries the current time even when the patch has an updated field of its
\* own; a record no patch names keeps its updated value.
C24_UpdatedNeverDecreases ==
    /\ SetRefreshesUpdated
    /\ AddKeepsPriorRecords
    /\ (OnCollection("set") /\ last.outcome = "ok") =>
        \A i \in 1..Len(Held(last.key)) :
            last.value[i].updated >= Held(last.key)[i].updated

\* C24 as amended: the same, except that the updated value of a record is
\* sure not to decrease only when it is not later than the current time:
\* set writes the current time over whatever the record carries.
C24_UpdatedRefreshed ==
    /\ SetRefreshesUpdated
    /\ AddKeepsPriorRecords
    /\ (OnCollection("set") /\ last.outcome = "ok") =>
        \A i \in 1..Len(Held(last.key)) :
            Held(last.key)[i].updated <= last.now
                => last.value[i].updated >= Held(last.key)[i].updated

\* a patch with updated 0 on a record stamped 1, at time 2
C24_Witness ==
    /\ OnCollection("set")
    /\ last.outcome = "ok"
    /\ last.now = 2
    /\ Len(last.items) = 1
    /\ "updated" \in DOMAIN last.items[1]
    /\ Len(Held(last.key)) > 0
    /\ Held(last.key)[1].id = last.items[1].id
    /\ Held(last.key)[1].updated = 1
    /\ last.value[1].updated = 2

\* a bucket-key to count mapping, as a result beside NullResult, ItemResult
\* and ListResult
MappingResult(mapping) == [kind |-> "mapping", mapping |-> mapping]

\* C25 as stated: on the same collection useGet(selector, count, assert)
\* returns, or throws, what get(selector, count, assert) does, and
\* useAggregate(selector) returns the mapping that aggregate(selector)
\* returns.
C25_ReactiveAgrees ==
    /\ OnCollection("useGet") =>
        LET r == GetOutcome(Some(Held(last.key)), last.operation,
                            last.count, last.assert)
        IN  /\ last.outcome = r.outcome
            /\ last.message = r.message
            /\ last.value = r.value
    /\ OnCollection("useAggregate") =>
        /\ last.outcome = "ok"
        /\ last.value =
            MappingResult(AggregateResult(Held(last.key), last.operation,
                                          Len(Held(last.key))))

\* C25 holds of useGet
C25_UseGetAgrees ==
    last.op = "useGet" => C25_ReactiveAgrees

\* C26: with both hooks configured the push hook is subscribed before the
\* pull hook is invoked, so every replacement of the state made while the
\* pull hook runs inside create, or after create returned, invokes the push
\* hook once, and what the hook reads through the store it is handed is the
\* state that replacement assigned.
C26_PushSubscribedBeforePull ==
    (hooks.push /\ hooks.pull) =>
        /\ pulls > 0 => "push" \in listeners
        /\ (pulls > 0 /\ last.op = "values.set"
                /\ last.outcome \in {"ok", "HookError"}) =>
            /\ pushed.count = 1
            /\ pushed.prev = last.prior
            /\ pushed.next = state
            /\ pushed.seen = state

\* the pull hook, still running inside create, writes a slot: the push hook
\* is invoked and reads the written state
C26_Witness ==
    /\ hooks.push
    /\ hooks.pull
    /\ phase = "pulling"
    /\ last.op = "values.set"
    /\ last.prior # state
    /\ pushed.count = 1
    /\ pushed.seen = state

\* the same after create returned
C26_WitnessLater ==
    /\ hooks.push
    /\ hooks.pull
    /\ phase = "ready"
    /\ last.op = "values.set"
    /\ last.prior # state
    /\ pushed.count = 1
    /\ pushed.seen = state

====
